---- MODULE Spec2Model ----
(***************************************************************************)
(* Model of homework.py: a bot that polls the homework-review API, turns   *)
(* the first homework record of an answer into a status message, sends it  *)
(* to a Telegram chat, and reports failures with duplicate suppression.    *)
(*                                                                         *)
(* Python values are records [type, val]: type is the Python type name,    *)
(* val the payload (an integer, a string, a sequence, or a function from   *)
(* keys to values).  Exceptions are values too: type is the class, val is  *)
(* str(exception).  The Russian message texts of the source are written    *)
(* transliterated, since module strings are ASCII; a backtick or an          *)
(* apostrophe inside a text is written as a vertical bar.                   *)
(***************************************************************************)
EXTENDS Integers, Sequences, FiniteSets, TLC

(* ---------------- bounds of the explored inputs ---------------- *)
\* largest current_date / wall-clock reading offered by the environment
MaxDate == 2
\* longest homeworks list offered by the environment
MaxLen == 2

(* ---------------- Python values ---------------- *)
PyInt(n) == [type |-> "int", val |-> n]
PyStr(s) == [type |-> "str", val |-> s]
PyList(s) == [type |-> "list", val |-> s]
PyDict(f) == [type |-> "dict", val |-> f]
None == [type |-> "NoneType", val |-> 0]
\* body of a reply that response.json() cannot decode
NotJSON == [type |-> "bytes", val |-> 0]

\* bool(x)
Truthy(x) ==
    CASE x.type = "int" -> x.val # 0
      [] x.type = "str" -> x.val # ""
      [] x.type = "list" -> Len(x.val) > 0
      [] x.type = "dict" -> DOMAIN x.val # {}
      [] x.type = "NoneType" -> FALSE
      [] OTHER -> TRUE

\* k is a substring of s
Substring(k, s) ==
    \/ k = ""
    \/ \E i \in 1..Len(s) : \E j \in i..Len(s) : SubSeq(s, i, j) = k

\* k in x can be evaluated (x is a container)
Iterable(x) == x.type \in {"dict", "list", "str"}

\* k in x for a string k and a container x
In(k, x) ==
    CASE x.type = "dict" -> k \in DOMAIN x.val
      [] x.type = "list" -> \E i \in 1..Len(x.val) : x.val[i] = PyStr(k)
      [] x.type = "str" -> Substring(k, x.val)
      [] OTHER -> FALSE

\* str(x), as an f-string interpolates it
Str(x) ==
    CASE x.type = "str" -> x.val
      [] x.type = "int" -> ToString(x.val)
      [] x.type = "NoneType" -> "None"
      [] OTHER -> ToString(x)

\* str(type(x))
TypeOf(x) == "<class |" \o x.type \o "|>"

\* outcome of a call: a returned value or a raised exception
Return(v) == [raised |-> FALSE, value |-> v]
Raise(cls, text) == [raised |-> TRUE, value |-> [type |-> cls, val |-> text]]

(* ---------------- module constants ---------------- *)
RETRY_PERIOD == 600
HTTP_OK == 200
ENDPOINT == "https://practicum.yandex.ru/api/user_api/homework_statuses/"

HOMEWORK_VERDICTS ==
    [approved |-> "Rabota proverena: revyueru vsyo ponravilos. Ura!",
     reviewing |-> "Rabota vzyata na proverku revyuerom.",
     rejected |-> "Rabota proverena: u revyuera est zamechaniya."]

\* exception classes imported from the exceptions module: subclasses of
\* Exception
CustomExceptions == {"KeyError", "URLError", "ParamError"}

\* builtin and library classes raised in the model that derive from Exception
BuiltinExceptions ==
    {"TypeError", "AttributeError", "ConnectionError", "JSONDecodeError",
     "TelegramError"}

\* an except clause that catches the builtin TypeError only
IsException_TypeErrorOnly(e) == e.type = "TypeError"

\* isinstance(e, Exception)
IsException(e) == e.type \in CustomExceptions \cup BuiltinExceptions

\* isinstance(e, requests.RequestException)
IsRequestException(e) == e.type \in {"ConnectionError", "JSONDecodeError"}

(* ---------------- inputs offered by the environment ---------------- *)
\* readings of int(time.time()): positive integers
Clock == 1..MaxDate

\* values of the three environment variables (os.getenv gives None or a str)
TokenValues == {None, PyStr(""), PyStr("token")}
TokenNames == <<"PRACTICUM_TOKEN", "TELEGRAM_TOKEN", "TELEGRAM_CHAT_ID">>

Names == {PyStr("hw1"), PyStr("")}
Statuses == {PyStr(s) : s \in {"approved", "reviewing", "rejected", "archived"}}
RecordKeys == {"homework_name", "status"}
EmptyDict == PyDict([k \in {} |-> None])

\* homework records: every combination of present/absent name and status
Records ==
    {PyDict([k \in K |-> IF k = "homework_name" THEN n ELSE s]) :
        K \in SUBSET RecordKeys, n \in Names, s \in Statuses}

\* first element of homeworks: a record, or a value that is not a mapping
FirstRecords == Records \cup {PyInt(7)}

\* elements after the first
TailRecords ==
    {PyDict([k \in RecordKeys |->
                IF k = "homework_name" THEN PyStr("hw2") ELSE PyStr("rejected")]),
     PyDict([k \in RecordKeys |->
                IF k = "homework_name" THEN PyStr("hw2") ELSE PyStr("archived")]),
     EmptyDict}

Tails(n) == UNION {[1..k -> TailRecords] : k \in 0..n}

HomeworkLists ==
    {<<>>} \cup {<<f>> \o t : f \in FirstRecords, t \in Tails(MaxLen - 1)}

\* values under the key homeworks, the lists among them drawn from lists
HomeworksValues(lists) ==
    {PyList(l) : l \in lists} \cup {PyStr("homeworks"), EmptyDict, None}

\* values under the key current_date
DateValues == {PyInt(n) : n \in 0..MaxDate} \cup {PyStr("tomorrow")}

PayloadKeys == {"homeworks", "current_date"}

\* decoded JSON bodies: mappings with any subset of the two keys, and
\* bodies that are not mappings
Bodies(lists) ==
    {PyDict([k \in K |-> IF k = "homeworks" THEN h ELSE d]) :
        K \in SUBSET PayloadKeys, h \in HomeworksValues(lists),
        d \in DateValues}
    \cup {PyList(<<>>), PyList(<<PyStr("current_date")>>),
          PyStr("current_date"), PyStr("error"), PyInt(5), None}

\* outcomes of requests.get: a transport failure, a non-200 answer, a 200
\* answer with an undecodable body, a 200 answer with a decoded body
RepliesWith(lists) ==
    {[ok |-> FALSE, status_code |-> 0, body |-> None],
     [ok |-> TRUE, status_code |-> 503, body |-> None],
     [ok |-> TRUE, status_code |-> HTTP_OK, body |-> NotJSON]}
    \cup {[ok |-> TRUE, status_code |-> HTTP_OK, body |-> b] :
             b \in Bodies(lists)}

Replies == RepliesWith(HomeworkLists)

\* the replies whose homeworks list has at most one record: main() reads
\* only homework[0], so these take every path through the loop
ShortReplies == RepliesWith({l \in HomeworkLists : Len(l) <= 1})

(* ---------------- functions of homework.py ---------------- *)
\* check_tokens() that complains about unset variables only, not empty ones
check_tokens_unset_only(tokens_dict) ==
    LET Missing(key) == tokens_dict[key] = None
        Complaint(key) == "Otsutstvuet obyazatelnaya peremennaya " \o key
        keys == SelectSeq(TokenNames, Missing)
    IN  [i \in 1..Len(keys) |-> Complaint(keys[i])]

\* check_tokens(): the list of complaints, one per missing variable
check_tokens(tokens_dict) ==
    LET Missing(key) == ~Truthy(tokens_dict[key])
        Complaint(key) == "Otsutstvuet obyazatelnaya peremennaya " \o key
        keys == SelectSeq(TokenNames, Missing)
    IN  [i \in 1..Len(keys) |-> Complaint(keys[i])]

\* send_message() without its try/except: a delivery failure propagates
send_message_raises(message, delivered) ==
    IF delivered THEN Return(None)
    ELSE Raise("TelegramError", "delivery failed")

\* bot.send_message raises when delivery fails; send_message() logs and
\* swallows every Exception
send_message(message, delivered) ==
    LET r == IF delivered THEN Return(None)
             ELSE Raise("TelegramError", "delivery failed")
    IN  IF r.raised /\ IsException(r.value) THEN Return(None) ELSE r

\* timestamp or int(time.time()): the value sent as from_date
current_time(timestamp_, now) ==
    IF Truthy(timestamp_) THEN timestamp_ ELSE PyInt(now)

\* raise (f"..."): raising a str raises this TypeError instead
RaiseStr == Raise("TypeError", "exceptions must derive from BaseException")

\* body of the try block of get_api_answer
request_api(timestamp_, now, reply) ==
    LET url == ENDPOINT \o "?from_date=" \o Str(current_time(timestamp_, now))
    IN  IF ~reply.ok
            THEN Raise("ConnectionError", "connection failed")
        ELSE IF reply.status_code # HTTP_OK
            THEN Raise("URLError", "Sboy pri obrashchenii k URL " \o url)
        ELSE IF reply.body = NotJSON
            THEN Raise("JSONDecodeError", "Expecting value")
        ELSE IF ~Iterable(reply.body)
            THEN Raise("TypeError", "argument of type |" \o reply.body.type
                                        \o "| is not iterable")
        ELSE IF ~In("current_date", reply.body)
            THEN Raise("ParamError", "Otsutstvuet parametr |current_date|")
        ELSE Return(reply.body)

\* get_api_answer(timestamp): both except clauses re-raise a str
get_api_answer(timestamp_, now, reply) ==
    LET r == request_api(timestamp_, now, reply)
    IN  IF r.raised /\ IsRequestException(r.value) THEN RaiseStr
        ELSE IF r.raised /\ IsException(r.value) THEN RaiseStr
        ELSE r

\* check_response() that takes a missing or malformed homeworks value for
\* an empty list
check_response_lenient(response_) ==
    IF response_.type # "dict"
        THEN Raise("TypeError", "Nepravilnyy tip dannykh otveta servera: "
                                    \o TypeOf(response_))
    ELSE IF ~In("homeworks", response_)
        THEN Return(PyList(<<>>))
    ELSE IF response_.val["homeworks"].type # "list"
        THEN Return(PyList(<<>>))
    ELSE Return(response_.val["homeworks"])

\* check_response(response)
check_response(response_) ==
    IF response_.type # "dict"
        THEN Raise("TypeError", "Nepravilnyy tip dannykh otveta servera: "
                                    \o TypeOf(response_))
    ELSE IF ~In("homeworks", response_)
        THEN Raise("KeyError", "Otvet servera ne soderzhit klyuch \"homeworks\": "
                                    \o ToString(response_))
    ELSE IF response_.val["homeworks"].type # "list"
        THEN Raise("TypeError", "V otvete API domashki pod klyuchom |homeworks|"
                                    \o " dannye prikhodyat ne v vide spiska.")
    ELSE Return(response_.val["homeworks"])

\* a lookup that answers every documented status with the first verdict
verdict_get_first(status) ==
    IF status.type = "str" /\ status.val \in DOMAIN HOMEWORK_VERDICTS
        THEN PyStr(HOMEWORK_VERDICTS["approved"])
        ELSE None

\* a lookup with a default text for statuses missing from the table
verdict_get_default(status) ==
    IF status.type = "str" /\ status.val \in DOMAIN HOMEWORK_VERDICTS
        THEN PyStr(HOMEWORK_VERDICTS[status.val])
        ELSE PyStr("Status: " \o Str(status))

\* HOMEWORK_VERDICTS.get(status)
verdict_get(status) ==
    IF status.type = "str" /\ status.val \in DOMAIN HOMEWORK_VERDICTS
        THEN PyStr(HOMEWORK_VERDICTS[status.val])
        ELSE None

\* parse_status() without the check of the verdict
parse_status_unchecked(homework_) ==
    IF ~Iterable(homework_)
        THEN Raise("TypeError", "argument of type |" \o homework_.type
                                    \o "| is not iterable")
    ELSE IF ~In("homework_name", homework_)
        THEN Raise("KeyError", "V otvete otsutstvuet klyuch homework_name")
    ELSE IF homework_.type # "dict"
        THEN Raise("AttributeError", "|" \o homework_.type
                                    \o "| object has no attribute |get|")
    ELSE IF ~In("status", homework_)
        THEN Raise("KeyError", "V otvete API domashki net klyucha |status|.")
    ELSE Return(PyStr("Izmenilsya status proverki raboty \""
                        \o Str(homework_.val["homework_name"]) \o "\". "
                        \o Str(verdict_get(homework_.val["status"]))))

\* parse_status(homework)
parse_status(homework_) ==
    IF ~Iterable(homework_)
        THEN Raise("TypeError", "argument of type |" \o homework_.type
                                    \o "| is not iterable")
    ELSE IF ~In("homework_name", homework_)
        THEN Raise("KeyError", "V otvete otsutstvuet klyuch homework_name")
    ELSE IF homework_.type # "dict"
        THEN Raise("AttributeError", "|" \o homework_.type
                                    \o "| object has no attribute |get|")
    ELSE IF ~In("status", homework_)
        THEN Raise("KeyError", "V otvete API domashki net klyucha |status|.")
    ELSE IF homework_.val["status"].type \in {"list", "dict"}
        THEN Raise("TypeError", "unhashable type: |"
                                    \o homework_.val["status"].type \o "|")
    ELSE IF ~Truthy(verdict_get(homework_.val["status"]))
        THEN Raise("KeyError", "API domashki vozvrashchaet nedokumentirovannyy"
                                    \o " status domashney raboty.")
    ELSE Return(PyStr("Izmenilsya status proverki raboty \""
                        \o Str(homework_.val["homework_name"]) \o "\". "
                        \o verdict_get(homework_.val["status"]).val))

\* the diagnostic main() formats from a caught exception
Diagnostic(error_) == PyStr("Sboy v rabote programmy: " \o error_.val)

(* ---------------- state of main() ---------------- *)
VARIABLES
    pc,               \* position of main()
    tokens,           \* the three environment variables
    timestamp,        \* the cursor
    last_send,        \* last_send: the last error diagnostic handed out
    response,         \* answer of get_api_answer in this iteration
    homework,         \* result of check_response in this iteration
    homework_status,  \* result of parse_status in this iteration
    error,            \* exception in flight, None when there is none
    message,          \* diagnostic formatted in this iteration
    reply,            \* what requests.get produced in this iteration
    from_date,        \* from_date parameter of this iteration's request
    parsed,           \* arguments parse_status was called with, this iteration
    sent,             \* messages handed to bot.send_message, this iteration
    timestamp0,       \* the cursor when this iteration began
    last_send0,       \* last_send when this iteration began
    prev,             \* what the previous iteration did
    requests_made,    \* calls of requests.get since the last sleep
    slept             \* seconds slept since the last request

vars == <<pc, tokens, timestamp, last_send, response, homework,
          homework_status, error, message, reply, from_date, parsed,
          sent, timestamp0, last_send0, prev, requests_made, slept>>

\* no request made yet in this iteration
NoReply == [ok |-> FALSE, status_code |-> 0, body |-> NotJSON]

\* nothing recorded about a previous iteration
NoIteration ==
    [ran |-> FALSE, message |-> None, delivered |-> <<>>, novel |-> FALSE]

Init ==
    /\ pc = "main"
    /\ tokens \in [{TokenNames[i] : i \in 1..Len(TokenNames)} -> TokenValues]
    /\ timestamp = None
    /\ last_send = [error |-> None]
    /\ response = None
    /\ homework = None
    /\ homework_status = None
    /\ error = None
    /\ message = None
    /\ reply = NoReply
    /\ from_date = None
    /\ parsed = <<>>
    /\ sent = <<>>
    /\ timestamp0 = None
    /\ last_send0 = None
    /\ prev = NoIteration
    /\ requests_made = 0
    /\ slept = 0

\* the exception r raised leaves the try block
Raised(r) == error' = r.value /\ pc' = "except"

\* main(), lines 129-140: token check, then the initial cursor
Startup ==
    /\ pc = "main"
    /\ UNCHANGED <<requests_made, slept>>
    /\ IF Len(check_tokens(tokens)) > 0
          THEN /\ pc' = "exit"
               /\ UNCHANGED <<timestamp, timestamp0>>
          ELSE \E now \in Clock :
               /\ timestamp' = PyInt(now)
               /\ timestamp0' = PyInt(now)
               /\ pc' = "get_api_answer"
    /\ UNCHANGED <<tokens, last_send, response, homework, homework_status,
                   error, message, reply, from_date, parsed, sent,
                   last_send0, prev>>

\* line 144: response = get_api_answer(timestamp), the API answering with
\* one of replies
Request(replies) ==
    /\ pc = "get_api_answer"
    /\ \E now \in Clock, rp \in replies :
          LET r == get_api_answer(timestamp, now, rp)
          IN  /\ reply' = rp
              /\ requests_made' = requests_made + 1
              /\ slept' = 0
              /\ from_date' = current_time(timestamp, now)
              /\ IF r.raised
                    THEN Raised(r) /\ UNCHANGED response
                    ELSE /\ response' = r.value
                         /\ pc' = "check_response"
                         /\ UNCHANGED error
    /\ UNCHANGED <<tokens, timestamp, last_send, homework, homework_status,
                   message, parsed, sent, timestamp0, last_send0, prev>>

GetApiAnswer == Request(Replies)

GetApiAnswerShort == Request(ShortReplies)

\* line 145: homework = check_response(response)
CheckResponse ==
    /\ pc = "check_response"
    /\ UNCHANGED <<requests_made, slept>>
    /\ LET r == check_response(response)
       IN  IF r.raised
              THEN Raised(r) /\ UNCHANGED homework
              ELSE /\ homework' = r.value
                   /\ pc' = "parse_status"
                   /\ UNCHANGED error
    /\ UNCHANGED <<tokens, timestamp, last_send, response, homework_status,
                   message, reply, from_date, parsed, sent, timestamp0,
                   last_send0, prev>>

\* lines 146-150 interpreting the last record of the list, not the first
ParseStatus_LastRecord ==
    /\ pc = "parse_status"
    /\ UNCHANGED <<requests_made, slept>>
    /\ LET arg == IF Truthy(homework) THEN homework.val[Len(homework.val)]
                                      ELSE homework
           r == parse_status(arg)
       IN  /\ parsed' = Append(parsed, arg)
           /\ IF r.raised
                 THEN Raised(r) /\ UNCHANGED homework_status
                 ELSE /\ homework_status' = r.value
                      /\ pc' = IF Truthy(homework) THEN "send_message"
                                                   ELSE "timestamp"
                      /\ UNCHANGED error
    /\ UNCHANGED <<tokens, timestamp, last_send, response, homework, message,
                   reply, from_date, sent, timestamp0, last_send0, prev>>

\* lines 146-150: parse_status(homework[0]) when the list is non-empty,
\* parse_status(homework) otherwise
ParseStatus ==
    /\ pc = "parse_status"
    /\ UNCHANGED <<requests_made, slept>>
    /\ LET arg == IF Truthy(homework) THEN homework.val[1] ELSE homework
           r == parse_status(arg)
       IN  /\ parsed' = Append(parsed, arg)
           /\ IF r.raised
                 THEN Raised(r) /\ UNCHANGED homework_status
                 ELSE /\ homework_status' = r.value
                      /\ pc' = IF Truthy(homework) THEN "send_message"
                                                   ELSE "timestamp"
                      /\ UNCHANGED error
    /\ UNCHANGED <<tokens, timestamp, last_send, response, homework, message,
                   reply, from_date, sent, timestamp0, last_send0, prev>>

\* line 148: send_message(bot, homework_status)
SendStatus ==
    /\ pc = "send_message"
    /\ UNCHANGED <<requests_made, slept>>
    /\ \E delivered \in BOOLEAN :
          LET r == send_message(homework_status, delivered)
          IN  /\ sent' = Append(sent, [text |-> homework_status,
                                       delivered |-> delivered])
              /\ IF r.raised
                    THEN Raised(r)
                    ELSE pc' = "timestamp" /\ UNCHANGED error
    /\ UNCHANGED <<tokens, timestamp, last_send, response, homework,
                   homework_status, message, reply, from_date, parsed,
                   timestamp0, last_send0, prev>>

\* line 151: timestamp = response[current_date]
AdvanceTimestamp ==
    /\ pc = "timestamp"
    /\ UNCHANGED <<requests_made, slept>>
    /\ timestamp' = response.val["current_date"]
    /\ pc' = "sleep"
    /\ UNCHANGED <<tokens, last_send, response, homework, homework_status,
                   error, message, reply, from_date, parsed, sent,
                   timestamp0, last_send0, prev>>

\* the comparison written with == instead of !=
ShouldNotify_Inverted(last_send_, message_) == last_send_.error = message_

\* a comparison that never suppresses
ShouldNotify_Always(last_send_, message_) == TRUE

\* line 154: the diagnostic differs from the one sent last
ShouldNotify(last_send_, message_) == last_send_.error # message_

\* lines 152-156: except Exception as error
Except ==
    /\ pc = "except"
    /\ UNCHANGED <<requests_made, slept>>
    /\ pc' = "sleep"
    /\ IF ~IsException(error)
          THEN UNCHANGED <<error, message, last_send, sent>>
          ELSE /\ message' = Diagnostic(error)
               /\ IF ShouldNotify(last_send, Diagnostic(error))
                     THEN \E delivered \in BOOLEAN :
                          LET r == send_message(Diagnostic(error), delivered)
                          IN  /\ sent' = Append(sent,
                                     [text |-> Diagnostic(error),
                                      delivered |-> delivered])
                              /\ IF r.raised
                                    THEN /\ error' = r.value
                                         /\ UNCHANGED last_send
                                    ELSE /\ error' = None
                                         /\ last_send' =
                                              [error |-> Diagnostic(error)]
                     ELSE /\ error' = None
                          /\ UNCHANGED <<last_send, sent>>
    /\ UNCHANGED <<tokens, timestamp, response, homework, homework_status,
                   reply, from_date, parsed, timestamp0, last_send0, prev>>

\* what an iteration leaves for the next one to compare with: its
\* diagnostic, whether that diagnostic differed from the memo the iteration
\* started with, and the delivery outcome of each message it handed over
Summary ==
    [ran |-> TRUE,
     message |-> message,
     delivered |-> [i \in 1..Len(sent) |-> sent[i].delivered],
     novel |-> message # None /\ last_send0 # message]

\* the sleep at the end of the try block instead of the finally clause: an
\* iteration that failed goes to the next request without sleeping
Sleep_AfterSuccessOnly ==
    /\ pc = "sleep"
    /\ pc' = IF error # None THEN "exit" ELSE "get_api_answer"
    /\ slept' = IF message # None THEN slept ELSE slept + RETRY_PERIOD
    /\ requests_made' = 0
    /\ prev' = Summary
    /\ timestamp0' = timestamp
    /\ last_send0' = last_send.error
    /\ response' = None
    /\ homework' = None
    /\ homework_status' = None
    /\ message' = None
    /\ reply' = NoReply
    /\ from_date' = None
    /\ parsed' = <<>>
    /\ sent' = <<>>
    /\ UNCHANGED <<tokens, timestamp, last_send, error>>

\* lines 157-158: finally: time.sleep(RETRY_PERIOD); an exception the except
\* clause did not handle then leaves main(), otherwise the loop goes on
Sleep ==
    /\ pc = "sleep"
    /\ pc' = IF error # None THEN "exit" ELSE "get_api_answer"
    /\ slept' = slept + RETRY_PERIOD
    /\ requests_made' = 0
    /\ prev' = Summary
    /\ timestamp0' = timestamp
    /\ last_send0' = last_send.error
    /\ response' = None
    /\ homework' = None
    /\ homework_status' = None
    /\ message' = None
    /\ reply' = NoReply
    /\ from_date' = None
    /\ parsed' = <<>>
    /\ sent' = <<>>
    /\ UNCHANGED <<tokens, timestamp, last_send, error>>

Next ==
    \/ Startup
    \/ GetApiAnswer
    \/ CheckResponse
    \/ ParseStatus
    \/ SendStatus
    \/ AdvanceTimestamp
    \/ Except
    \/ Sleep

Spec == Init /\ [][Next]_vars

\* every variable holds a value of the expected shape
TypeOK ==
    /\ pc \in {"main", "exit", "get_api_answer", "check_response",
               "parse_status", "send_message", "timestamp", "except", "sleep"}
    /\ timestamp.type \in {"NoneType", "int", "str"}
    /\ last_send.error.type \in {"NoneType", "str"}
    /\ Len(sent) <= 1

(* ---------------- the second specification: scheduling ---------------- *)
\* main() is one sequential process: whenever a step is possible it is
\* taken.  The API answers with the short replies.
LiveNext ==
    \/ Startup
    \/ GetApiAnswerShort
    \/ CheckResponse
    \/ ParseStatus
    \/ SendStatus
    \/ AdvanceTimestamp
    \/ Except
    \/ Sleep

LiveSpec == Init /\ [][LiveNext]_vars /\ WF_vars(LiveNext)

(* ---------------- vocabulary of the properties ---------------- *)
\* the iteration has left its try/except and is about to sleep
IterationDone == pc = "sleep"

\* the request of this iteration got a 200 answer with a decoded body
Decoded == reply.ok /\ reply.status_code = HTTP_OK /\ reply.body # NotJSON

\* the decoded body is a mapping with homeworks a list and current_date
StructurallyValid ==
    /\ Decoded
    /\ reply.body.type = "dict"
    /\ PayloadKeys \subseteq DOMAIN reply.body.val
    /\ reply.body.val["homeworks"].type = "list"

homeworks == reply.body.val["homeworks"].val
current_date == reply.body.val["current_date"]

\* the first record is a mapping whose status is in the Verdict Table
FirstHasKnownStatus ==
    /\ StructurallyValid
    /\ Len(homeworks) > 0
    /\ homeworks[1].type = "dict"
    /\ "status" \in DOMAIN homeworks[1].val
    /\ homeworks[1].val["status"].val \in {"approved", "reviewing", "rejected"}

\* the first record is a mapping whose status is present but undocumented
FirstHasUnknownStatus ==
    /\ StructurallyValid
    /\ Len(homeworks) > 0
    /\ homeworks[1].type = "dict"
    /\ "status" \in DOMAIN homeworks[1].val
    /\ homeworks[1].val["status"].val \notin {"approved", "reviewing", "rejected"}

\* the first record is a mapping without a status
FirstLacksStatus ==
    /\ StructurallyValid
    /\ Len(homeworks) > 0
    /\ homeworks[1].type = "dict"
    /\ "status" \notin DOMAIN homeworks[1].val

\* the iteration ended in the except clause with a diagnostic
Failed == message # None

\* messages of this iteration that are not the error diagnostic
StatusMessages == {i \in 1..Len(sent) : sent[i].text # message}

\* this iteration and the previous one failed with the same diagnostic
SameFailureTwice ==
    /\ IterationDone
    /\ prev.ran
    /\ prev.message # None
    /\ Failed
    /\ prev.message = message

(* ---------------- C1: duplicate-error suppression ---------------- *)
\* C1 as stated: whenever two consecutive iterations fail with the same
\* diagnostic text, exactly one message is handed to the Notifier across
\* the two iterations.
C1_ExactlyOneAcrossTwo ==
    SameFailureTwice => Len(prev.delivered) + Len(sent) = 1

\* C1 as amended: when two consecutive iterations fail with the same
\* diagnostic text, the second hands nothing to the Notifier, and the first
\* hands over that diagnostic once if it differs from the Last-Error Memo the
\* first iteration started with, and nothing otherwise (so at most one
\* message across the two).
C1_SecondIsSuppressed ==
    SameFailureTwice =>
        /\ sent = <<>>
        /\ last_send.error = message
        /\ Len(prev.delivered) = IF prev.novel THEN 1 ELSE 0

\* two identical failures in a row, the first of them notified
C1_Witness ==
    SameFailureTwice /\ Len(prev.delivered) = 1 /\ sent = <<>>

(* ---------------- C2: cursor after a valid response ---------------- *)
\* C2: after an iteration whose response was structurally valid, the cursor
\* equals the current_date of that response, whether the list was empty or
\* not and whether interpretation succeeded or not.
C2_CursorIsCurrentDate ==
    (IterationDone /\ StructurallyValid) => timestamp = current_date

(* ---------------- C3: empty list of homeworks ---------------- *)
\* C3: in an iteration whose response is structurally valid with an empty
\* homeworks list, parse_status is not called, nothing is handed to the
\* Notifier, and the Last-Error Memo is unchanged.
C3_EmptyListIsSilent ==
    (IterationDone /\ StructurallyValid /\ homeworks = <<>>) =>
        /\ parsed = <<>>
        /\ sent = <<>>
        /\ last_send.error = last_send0

(* ---------------- C4: a first record with a known status ---------------- *)
\* the text a status notification must have: the name, then the verdict
ExpectedStatusText(record) ==
    "Izmenilsya status proverki raboty \""
        \o record.val["homework_name"].val \o "\". "
        \o HOMEWORK_VERDICTS[record.val["status"].val]

\* C4: in an iteration whose response is structurally valid and whose first
\* record has a homework_name and a status of the Verdict Table, the Notifier
\* is invoked exactly once, with the name followed by the verdict of that
\* status, and the cursor becomes the current_date of the response.
C4_KnownStatusIsNotified ==
    (IterationDone /\ FirstHasKnownStatus
        /\ "homework_name" \in DOMAIN homeworks[1].val) =>
        /\ Len(sent) = 1
        /\ sent[1].text = PyStr(ExpectedStatusText(homeworks[1]))
        /\ ~Failed
        /\ timestamp = current_date

\* a rejected homework was announced and the cursor moved
C4_Witness ==
    /\ IterationDone
    /\ FirstHasKnownStatus
    /\ "homework_name" \in DOMAIN homeworks[1].val
    /\ homeworks[1].val["status"].val = "rejected"
    /\ Len(sent) = 1
    /\ timestamp # timestamp0

(* ---------------- C5: the loop never stops ---------------- *)
\* C5: after every iteration of the loop, successful or failed, whatever
\* the API answered and whether or not a message could be delivered, the
\* loop does not end: a next API request is eventually issued (the request
\* is issued by the step that leaves get_api_answer, setting from_date).
C5_LoopGoesOn ==
    (pc = "sleep") ~> (pc \in {"check_response", "except"} /\ from_date # None)

\* a request is issued right after an iteration that failed
C5_Witness ==
    /\ prev.ran
    /\ prev.message # None
    /\ pc \in {"check_response", "except"}
    /\ from_date # None
    /\ sent = <<>>

(* ---------------- C6: delivery failures are swallowed ---------------- *)
\* C6: a failed delivery raises nothing in main() and is not retried; the
\* iteration ends as with a successful delivery: an undelivered status
\* message still moves the cursor to current_date, an undelivered diagnostic
\* still becomes the Last-Error Memo, and the same failure in the next
\* iteration is suppressed.
C6_DeliveryFailureIsSwallowed ==
    IterationDone =>
        /\ error = None
        /\ Len(sent) <= 1
        /\ \A i \in 1..Len(sent) :
              ~sent[i].delivered =>
                 IF Failed THEN sent[i].text = message
                                /\ last_send.error = message
                           ELSE timestamp = current_date
        /\ (prev.ran /\ prev.delivered = <<FALSE>>
               /\ Failed /\ prev.message = message)
             => sent = <<>>

\* an undelivered diagnostic was followed by the same failure
C6_Witness ==
    /\ IterationDone
    /\ prev.ran
    /\ prev.delivered = <<FALSE>>
    /\ Failed
    /\ prev.message = message

(* ---------------- C7: payloads without a homeworks list ---------------- *)
\* the decoded body has no homeworks key, or homeworks is not a list
NoHomeworksList ==
    /\ Decoded
    /\ \/ reply.body.type # "dict"
       \/ "homeworks" \notin DOMAIN reply.body.val
       \/ reply.body.val["homeworks"].type # "list"

\* C7: for every payload without the key homeworks, or with a homeworks
\* value that is not a list, the iteration fails before interpretation:
\* parse_status is not called, no status message is sent, the cursor is
\* left unchanged.
C7_NoListFailsValidation ==
    (IterationDone /\ NoHomeworksList) =>
        /\ Failed
        /\ parsed = <<>>
        /\ StatusMessages = {}
        /\ timestamp = timestamp0

\* a mapping with current_date whose homeworks is a string was rejected
C7_Witness ==
    /\ IterationDone
    /\ NoHomeworksList
    /\ reply.body.type = "dict"
    /\ PayloadKeys \subseteq DOMAIN reply.body.val
    /\ reply.body.val["homeworks"].type = "str"
    /\ Failed

(* ---------------- C8: records with a missing or unknown status ---------- *)
\* C8: when the first record lacks status or carries a status outside the
\* Verdict Table, parse_status fails on it and no status message is sent;
\* the only message of the iteration is the diagnostic, sent exactly when
\* it differs from the Last-Error Memo.
C8_BadStatusIsNotAnnounced ==
    (IterationDone /\ (FirstHasUnknownStatus \/ FirstLacksStatus)) =>
        /\ Failed
        /\ parsed = <<homeworks[1]>>
        /\ StatusMessages = {}
        /\ Len(sent) = IF last_send0 # message THEN 1 ELSE 0

\* a record with an undocumented status produced a diagnostic
C8_Witness ==
    /\ IterationDone
    /\ FirstHasUnknownStatus
    /\ "homework_name" \in DOMAIN homeworks[1].val
    /\ Len(sent) = 1
    /\ sent[1].text = message

C10_CursorNeverDecreases ==
    (IterationDone /\ timestamp.type = "int" /\ timestamp0.type = "int") =>
        timestamp.val >= timestamp0.val

(* ---------------- C11: startup fails fast ---------------- *)
\* one of the three secrets is unset or empty
SecretMissing ==
    \E i \in 1..Len(TokenNames) :
        tokens[TokenNames[i]] \in {None, PyStr("")}

\* C11: once main() has checked the tokens, if one of the three secrets is
\* absent or empty then main() has exited without entering the loop: no API
\* request was issued and the Notifier was not invoked; if all three are
\* present, the loop has been entered.
C11_StartupFailsFast ==
    pc # "main" =>
        IF SecretMissing
           THEN /\ pc = "exit"
                /\ requests_made = 0
                /\ from_date = None
                /\ reply = NoReply
                /\ sent = <<>>
                /\ ~prev.ran
                /\ timestamp = None
           ELSE /\ pc \in {"get_api_answer", "check_response", "parse_status",
                           "send_message", "timestamp", "except", "sleep"}
                /\ timestamp # None

\* main() exited because the chat identifier alone is empty
C11_Witness ==
    /\ pc = "exit"
    /\ tokens["PRACTICUM_TOKEN"] = PyStr("token")
    /\ tokens["TELEGRAM_TOKEN"] = PyStr("token")
    /\ tokens["TELEGRAM_CHAT_ID"] = PyStr("")

(* ---------------- C12: one request and one sleep per iteration -------- *)
\* C12: every iteration issues exactly one API request and is followed by
\* exactly one sleep of RETRY_PERIOD, whether it succeeded or failed: when an
\* iteration is over one request has been made since the last sleep, and
\* when the next request is about to be issued exactly RETRY_PERIOD seconds
\* have been slept since the previous request.
C12_OneRequestOneSleep ==
    /\ pc \in {"check_response", "parse_status", "send_message", "timestamp",
               "except", "sleep"}
         => requests_made = 1 /\ slept = 0
    /\ pc = "get_api_answer"
         => /\ requests_made = 0
            /\ slept = IF prev.ran THEN RETRY_PERIOD ELSE 0

\* the loop is back at the request after an iteration that failed
C12_Witness ==
    /\ pc = "get_api_answer"
    /\ prev.ran
    /\ prev.message # None
    /\ slept = RETRY_PERIOD
    /\ requests_made = 0

(* ---------------- C13: distinct failures of the API client ---------- *)
\* the diagnostic of a non-200 answer: it names the requested URL
EndpointUnavailableText ==
    "Sboy v rabote programmy: Sboy pri obrashchenii k URL " \o ENDPOINT
        \o "?from_date=" \o Str(from_date)

\* C13: a non-200 answer and a transport failure reach main() as different
\* errors: the diagnostic of a non-200 answer carries the requested URL, and
\* the diagnostic of a transport failure is a different text.
C13_FailuresAreDistinct ==
    IterationDone =>
        /\ (reply.ok /\ reply.status_code # HTTP_OK)
              => message = PyStr(EndpointUnavailableText)
        /\ ~reply.ok
              => Failed /\ message # PyStr(EndpointUnavailableText)

(* ---------------- C14: from_date is the cursor ---------------- *)
\* C14: in every iteration the from_date parameter of the request equals
\* the cursor the iteration started with, whatever that cursor is.
C14_FromDateIsCursor ==
    (pc \in {"check_response", "parse_status", "send_message", "timestamp",
             "except", "sleep"})
        => from_date = timestamp0

(* ---------------- C15: homework_name must be non-empty ---------------- *)
\* the first record is a mapping whose homework_name is missing or empty
FirstLacksName ==
    /\ StructurallyValid
    /\ Len(homeworks) > 0
    /\ homeworks[1].type = "dict"
    /\ \/ "homework_name" \notin DOMAIN homeworks[1].val
       \/ homeworks[1].val["homework_name"] = PyStr("")

\* C15: when the homework_name of the first record is missing or is the
\* empty string, parse_status fails and no status message is sent, even
\* when status is a key of the Verdict Table.
C15_NameIsRequired ==
    (IterationDone /\ FirstLacksName) =>
        /\ Failed
        /\ StatusMessages = {}

(* ---------------- C16: the memo across successful iterations ---------- *)
\* C16: an iteration that raised nothing leaves the Last-Error Memo
\* unchanged; the memo changes only in an iteration that hands the Notifier
\* a diagnostic different from the memo, and becomes that diagnostic.  So a
\* failure whose diagnostic equals the memo is suppressed however many
\* iterations without a failure lie in between, and a failure whose
\* diagnostic differs from the memo is notified.
C16_MemoChangesOnlyOnNewError ==
    IterationDone =>
        /\ ~Failed => last_send.error = last_send0
        /\ last_send.error # last_send0 =>
              /\ Failed
              /\ message # last_send0
              /\ last_send.error = message
              /\ Len(sent) = 1
              /\ sent[1].text = message
        /\ (Failed /\ message = last_send0) => sent = <<>>
        /\ (Failed /\ message # last_send0) =>
              Len(sent) = 1 /\ sent[1].text = message

\* the diagnostic of the memo came back after an iteration without failure
\* and was suppressed
C16_Witness ==
    /\ IterationDone
    /\ prev.ran
    /\ prev.message = None
    /\ Failed
    /\ message = last_send0
    /\ sent = <<>>

(* ---------------- C17: the cursor is an integer ---------------- *)
\* C17: the cursor is an integer in every state of the loop: a response
\* whose current_date is not an integer leaves the cursor as it was, and no
\* status message is sent for any record of such a response.
C17_CursorIsInteger ==
    /\ pc \notin {"main", "exit"} => timestamp.type = "int"
    /\ (IterationDone /\ Decoded /\ reply.body.type = "dict"
          /\ "current_date" \in DOMAIN reply.body.val
          /\ reply.body.val["current_date"].type # "int")
         => timestamp = timestamp0 /\ StatusMessages = {}

(* ---------------- C18: order of the structural checks ---------------- *)
\* the diagnostic of the first structural check the body violates, in the
\* order mapping, homeworks present, current_date present, homeworks a list
FirstViolation(body) ==
    IF body.type # "dict"
        THEN "Sboy v rabote programmy: Nepravilnyy tip dannykh otveta servera: "
                \o TypeOf(body)
    ELSE IF "homeworks" \notin DOMAIN body.val
        THEN "Sboy v rabote programmy: Otvet servera ne soderzhit klyuch "
                \o "\"homeworks\": " \o ToString(body)
    ELSE IF "current_date" \notin DOMAIN body.val
        THEN "Sboy v rabote programmy: Otsutstvuet parametr |current_date|"
    ELSE "Sboy v rabote programmy: V otvete API domashki pod klyuchom "
                \o "|homeworks| dannye prikhodyat ne v vide spiska."

\* C18: when a decoded body violates one or more structural checks, the
\* iteration fails with the error of the first violated check in the order
\* mapping, homeworks present, current_date present, homeworks a list.
C18_ChecksInOrder ==
    (IterationDone /\ Decoded /\ ~StructurallyValid) =>
        message = PyStr(FirstViolation(reply.body))

(* ---------------- C19: one message, about the first record ------------ *)
\* C19: an iteration hands the Notifier at most one message, and what it
\* does is decided by the first record alone: with r the result of
\* parse_status on the first record, either r is a text, that text is the
\* only message, the cursor is current_date and the memo is unchanged, or r
\* is an error, the only message (if any) is its diagnostic, the cursor is
\* unchanged and the memo is that diagnostic.
C19_FirstRecordDecides ==
    IterationDone =>
        /\ Len(sent) <= 1
        /\ (StructurallyValid /\ Len(homeworks) > 0) =>
              LET r == parse_status(homeworks[1])
              IN  /\ parsed = <<homeworks[1]>>
                  /\ IF r.raised
                        THEN /\ message = Diagnostic(r.value)
                             /\ \A i \in 1..Len(sent) : sent[i].text = message
                             /\ Len(sent) = IF last_send0 # message THEN 1 ELSE 0
                             /\ timestamp = timestamp0
                             /\ last_send.error = message
                        ELSE /\ ~Failed
                             /\ Len(sent) = 1
                             /\ sent[1].text = r.value
                             /\ timestamp = current_date
                             /\ last_send.error = last_send0

\* a valid first record followed by one with an undocumented status was
\* announced
C19_Witness ==
    /\ IterationDone
    /\ FirstHasKnownStatus
    /\ Len(homeworks) >= 2
    /\ homeworks[2].type = "dict"
    /\ "status" \in DOMAIN homeworks[2].val
    /\ homeworks[2].val["status"] = PyStr("archived")
    /\ Len(sent) = 1
    /\ ~Failed

====
